---------------------------- MODULE Spec2Model ----------------------------
(***************************************************************************)
(* stripe-rs: the webhook verifier (src/resources/event.rs) and the        *)
(* transport client (src/client.rs).                                       *)
(*                                                                         *)
(* A Rust String / &str / Vec<u8> is modelled as the sequence of its       *)
(* bytes (0..255); the literals below are the UTF-8 bytes of the quoted    *)
(* text.  The texts the model draws as inputs are ASCII.                   *)
(***************************************************************************)
EXTENDS Integers, Sequences, FiniteSets, TLC

(***************************************************************************)
(* Bounds of the model.                                                    *)
(***************************************************************************)
\* Width in bits of the model's signed integer type standing for i64.
IntBits == 11
\* Length in bytes of the model's digest standing for the 32 bytes of SHA-256.
MacLen == 2
\* The wall clock (Utc::now().timestamp()) when the model starts.
Epoch == 600
\* How many seconds the wall clock may advance.
MaxTicks == 2

IntMax == 2 ^ (IntBits - 1) - 1
IntMin == -(2 ^ (IntBits - 1))

(***************************************************************************)
(* Text helpers: str::split, str::trim, str::parse::<i64>, format!.        *)
(***************************************************************************)
Min(S) == CHOOSE x \in S : \A y \in S : x <= y
Max(S) == CHOOSE x \in S : \A y \in S : x >= y

\* The k-th least element of a set of numbers.
Kth(S, k) == CHOOSE p \in S : Cardinality({q \in S : q < p}) = k - 1

\* s.split(sep) for a one-byte separator: n separators give n + 1 pieces,
\* the texts between the separators.
Split(s, sep) ==
    LET seps == {i \in 1..Len(s) : s[i] = sep}
        n == Cardinality(seps) + 1
    IN  [k \in 1..n |->
            SubSeq(s, IF k = 1 THEN 1 ELSE Kth(seps, k - 1) + 1,
                      IF k = n THEN Len(s) ELSE Kth(seps, k) - 1)]

\* char::is_whitespace on the ASCII range: \t \n \v \f \r and space.
IsWhitespace(b) == b \in {9, 10, 11, 12, 13, 32}

\* s.trim(): s without its leading and trailing white space.
Trim(s) ==
    LET inner == {i \in 1..Len(s) : ~IsWhitespace(s[i])}
    IN  IF inner = {} THEN <<>> ELSE SubSeq(s, Min(inner), Max(inner))

IsDigit(b) == b >= 48 /\ b <= 57

ParseFail == [ok |-> FALSE, v |-> 0]

\* The digit loop of from_str_radix: checked_mul, then checked_add for a
\* positive number and checked_sub for a negative one.
RECURSIVE ParseDigits(_, _, _, _)
ParseDigits(s, i, acc, neg) ==
    IF i > Len(s) THEN [ok |-> TRUE, v |-> acc]
    ELSE IF ~IsDigit(s[i]) THEN ParseFail
    ELSE LET d == s[i] - 48
             nxt == IF neg THEN acc * 10 - d ELSE acc * 10 + d
         IN  IF nxt > IntMax \/ nxt < IntMin THEN ParseFail
             ELSE ParseDigits(s, i + 1, nxt, neg)

\* s.parse::<i64>(): an optional sign, then at least one digit, no overflow.
ParseI64(s) ==
    IF s = <<>> THEN ParseFail
    ELSE IF s[1] \in {43, 45}
         THEN IF Len(s) = 1 THEN ParseFail
              ELSE ParseDigits(s, 2, 0, s[1] = 45)
         ELSE ParseDigits(s, 1, 0, FALSE)

RECURSIVE NatToDecimal(_)
NatToDecimal(n) ==
    IF n < 10 THEN <<48 + n>>
    ELSE Append(NatToDecimal(n \div 10), 48 + (n % 10))

\* format!("{}", n) of an integer.
ToDecimal(n) == IF n < 0 THEN <<45>> \o NatToDecimal(-n) ELSE NatToDecimal(n)

(***************************************************************************)
(* Two's-complement subtraction of the integer type.  With overflow checks *)
(* (a debug build) an overflow panics; without them (a release build) the  *)
(* result wraps.                                                           *)
(***************************************************************************)
SubOverflows(a, b) == a - b > IntMax \/ a - b < IntMin

WrappingSub(a, b) ==
    LET d == a - b
        m == 2 ^ IntBits
    IN  ((d - IntMin) % m) + IntMin

(***************************************************************************)
(* HMAC.  Hmac::<Sha256> is a keyed hash with a fixed-length output that   *)
(* is collision-free in practice.  The model's stand-in is a weighted sum  *)
(* of the bytes of the key, a separator and the message, MacLen bytes      *)
(* long.  Two texts that differ in one byte never collide under it (the    *)
(* weights are odd), and no two inputs of the model collide                *)
(* (HmacCollisionFree).  Its bytes are 0..127, so that a digest is a       *)
(* UTF-8 string: a SHA-256 digest is one only now and then, and only then  *)
(* can a header, which is a String, hold the digest itself.                *)
(***************************************************************************)
RECURSIVE SumRange(_, _, _)
\* f[lo] + ... + f[hi]
SumRange(f, lo, hi) ==
    IF lo > hi THEN 0
    ELSE IF lo = hi THEN f[lo]
    ELSE LET mid == (lo + hi) \div 2
         IN  SumRange(f, lo, mid) + SumRange(f, mid + 1, hi)

\* The weight of position i in byte j of the digest: an odd number.
Weight(j, i) == 2 * ((3 * i * j + i \div 2) % 128) + 1

\* mac = Hmac::new_varkey(key); mac.input(msg); mac.result()
Hmac(key, msg) ==
    LET s == key \o <<256>> \o msg
    IN  [j \in 1..MacLen |->
            SumRange([i \in 1..Len(s) |-> (s[i] + 1) * Weight(j, i)], 1, Len(s)) % 128]

\* MacResult::is_equal(code): a constant-time comparison of the digest with
\* code, false when the lengths differ.
IsEqual(result, code) ==
    /\ Len(code) = Len(result)
    /\ \A i \in 1..Len(result) : code[i] = result[i]

HexDigit(n) == IF n < 10 THEN 48 + n ELSE 87 + n

\* The lower-case hexadecimal text of a byte string, as the sender writes a
\* digest into the header: two characters for each byte.
Hex(bytes) ==
    [i \in 1..(2 * Len(bytes)) |->
        LET b == bytes[(i + 1) \div 2]
        IN  HexDigit(IF i % 2 = 1 THEN b \div 16 ELSE b % 16)]

(***************************************************************************)
(* JSON.  serde_json::from_str on the subset of JSON the model's payloads  *)
(* and bodies are written in: objects, strings without escapes, integers,  *)
(* true, false and null, with no white space between tokens.               *)
(* A value is [t, s, kv]: its type, its text (a string's bytes, a          *)
(* number's digits) and, for an object, its members as <<key, value>>.     *)
(***************************************************************************)
JNone == [t |-> "none", s |-> <<>>, kv |-> <<>>]
JFail == [ok |-> FALSE, v |-> JNone, next |-> 0]
JOk(t, s, kv, next) == [ok |-> TRUE, v |-> [t |-> t, s |-> s, kv |-> kv], next |-> next]

MatchAt(s, i, lit) ==
    /\ i + Len(lit) - 1 <= Len(s)
    /\ SubSeq(s, i, i + Len(lit) - 1) = lit

\* The rest of a string, from i, the byte after its opening quote, to its
\* closing quote; a control character or a backslash inside it fails.
ScanString(s, i) ==
    LET quotes == {j \in i..Len(s) : s[j] = 34}
        close == Min(quotes)
    IN  IF quotes = {} THEN JFail
        ELSE IF \E j \in i..(close - 1) : s[j] = 92 \/ s[j] < 32 THEN JFail
        ELSE JOk("str", SubSeq(s, i, close - 1), <<>>, close + 1)

\* The digits from i on.
ScanDigits(s, i) ==
    LET others == {j \in i..Len(s) : ~IsDigit(s[j])}
        stop == IF others = {} THEN Len(s) + 1 ELSE Min(others)
    IN  [s |-> SubSeq(s, i, stop - 1), next |-> stop]

\* An integer: an optional minus, then 0 or a digit string with no leading 0.
ScanNumber(s, i) ==
    LET neg == s[i] = 45
        d == ScanDigits(s, IF neg THEN i + 1 ELSE i)
    IN  IF d.s = <<>> \/ (Len(d.s) > 1 /\ d.s[1] = 48) THEN JFail
        ELSE JOk("num", (IF neg THEN <<45>> ELSE <<>>) \o d.s, <<>>, d.next)

RECURSIVE ParseValue(_, _), ParseMembers(_, _, _)
ParseValue(s, i) ==
    IF i > Len(s) THEN JFail
    ELSE IF s[i] = 34 THEN ScanString(s, i + 1)
    ELSE IF s[i] = 123
         THEN IF i + 1 <= Len(s) /\ s[i + 1] = 125
              THEN JOk("obj", <<>>, <<>>, i + 2)
              ELSE ParseMembers(s, i + 1, <<>>)
    ELSE IF MatchAt(s, i, <<116, 114, 117, 101>>) THEN JOk("bool", <<116, 114, 117, 101>>, <<>>, i + 4)
    ELSE IF MatchAt(s, i, <<102, 97, 108, 115, 101>>) THEN JOk("bool", <<102, 97, 108, 115, 101>>, <<>>, i + 5)
    ELSE IF MatchAt(s, i, <<110, 117, 108, 108>>) THEN JOk("null", <<>>, <<>>, i + 4)
    ELSE ScanNumber(s, i)

\* The members of an object from the start of a key, acc being those read.
ParseMembers(s, i, acc) ==
    IF i > Len(s) \/ s[i] # 34 THEN JFail
    ELSE LET k == ScanString(s, i + 1)
         IN  IF ~k.ok \/ k.next > Len(s) \/ s[k.next] # 58 THEN JFail
             ELSE LET v == ParseValue(s, k.next + 1)
                  IN  IF ~v.ok \/ v.next > Len(s) THEN JFail
                      ELSE LET acc2 == Append(acc, <<k.v.s, v.v>>)
                           IN  IF s[v.next] = 44
                               THEN ParseMembers(s, v.next + 1, acc2)
                               ELSE IF s[v.next] = 125
                               THEN JOk("obj", <<>>, acc2, v.next + 1)
                               ELSE JFail

\* A whole document: one value and nothing after it.
ParseJson(s) ==
    LET r == ParseValue(s, 1)
    IN  IF r.ok /\ r.next = Len(s) + 1 THEN r ELSE JFail

\* The values an object gives a key.
Members(obj, key) == SelectSeq(obj.kv, LAMBDA p : p[1] = key)

\* A field of a derived Deserialize struct: present once (serde rejects a
\* duplicate field and a missing one) and of the field's JSON type.
HasField(obj, key, t) ==
    /\ obj.t = "obj"
    /\ Len(Members(obj, key)) = 1
    /\ Members(obj, key)[1][2].t = t

FieldOf(obj, key) == Members(obj, key)[1][2]

(***************************************************************************)
(* The event model.                                                        *)
(***************************************************************************)
EventType == { <<97, 99, 99, 111, 117, 110, 116, 46, 117, 112, 100, 97, 116, 101, 100>>,
    <<97, 99, 99, 111, 117, 110, 116, 46, 97, 112, 112, 108, 105, 99, 97, 116, 105, 111, 110, 46, 100, 101, 97, 117, 116, 104, 111, 114, 105, 122, 101, 100>>,
    <<97, 99, 99, 111, 117, 110, 116, 46, 101, 120, 116, 101, 114, 110, 97, 108, 95, 97, 99, 99, 111, 117, 110, 116, 46, 99, 114, 101, 97, 116, 101, 100>>,
    <<97, 99, 99, 111, 117, 110, 116, 46, 101, 120, 116, 101, 114, 110, 97, 108, 95, 97, 99, 99, 111, 117, 110, 116, 46, 100, 101, 108, 101, 116, 101, 100>>,
    <<97, 99, 99, 111, 117, 110, 116, 46, 101, 120, 116, 101, 114, 110, 97, 108, 95, 97, 99, 99, 111, 117, 110, 116, 46, 117, 112, 100, 97, 116, 101, 100>>,
    <<97, 112, 112, 108, 105, 99, 97, 116, 105, 111, 110, 95, 102, 101, 101, 46, 99, 114, 101, 97, 116, 101, 100>>,
    <<97, 112, 112, 108, 105, 99, 97, 116, 105, 111, 110, 95, 102, 101, 101, 46, 114, 101, 102, 117, 110, 100, 101, 100>>,
    <<97, 112, 112, 108, 105, 99, 97, 116, 105, 111, 110, 95, 102, 101, 101, 46, 114, 101, 102, 117, 110, 100, 46, 117, 112, 100, 97, 116, 101, 100>>,
    <<98, 97, 108, 97, 110, 99, 101, 46, 97, 118, 97, 105, 108, 97, 98, 108, 101>>,
    <<99, 104, 97, 114, 103, 101, 46, 99, 97, 112, 116, 117, 114, 101, 100>>,
    <<99, 104, 97, 114, 103, 101, 46, 102, 97, 105, 108, 101, 100>>,
    <<99, 104, 97, 114, 103, 101, 46, 112, 101, 110, 100, 105, 110, 103>>,
    <<99, 104, 97, 114, 103, 101, 46, 114, 101, 102, 117, 110, 100, 101, 100>>,
    <<99, 104, 97, 114, 103, 101, 46, 115, 117, 99, 99, 101, 101, 100, 101, 100>>,
    <<99, 104, 97, 114, 103, 101, 46, 117, 112, 100, 97, 116, 101, 100>>,
    <<99, 104, 97, 114, 103, 101, 46, 100, 105, 115, 112, 117, 116, 101, 46, 99, 108, 111, 115, 101, 100>>,
    <<99, 104, 97, 114, 103, 101, 46, 100, 105, 115, 112, 117, 116, 101, 46, 99, 114, 101, 97, 116, 101, 100>>,
    <<99, 104, 97, 114, 103, 101, 46, 100, 105, 115, 112, 117, 116, 101, 46, 102, 117, 110, 100, 115, 95, 114, 101, 105, 110, 115, 116, 97, 116, 101, 100>>,
    <<99, 104, 97, 114, 103, 101, 46, 100, 105, 115, 112, 117, 116, 101, 46, 102, 117, 110, 100, 115, 95, 119, 105, 116, 104, 100, 114, 97, 119, 110>>,
    <<99, 104, 97, 114, 103, 101, 46, 100, 105, 115, 112, 117, 116, 101, 46, 117, 112, 100, 97, 116, 101, 100>>,
    <<99, 104, 97, 114, 103, 101, 46, 114, 101, 102, 117, 110, 100, 46, 117, 112, 100, 97, 116, 101, 100>>,
    <<99, 111, 117, 112, 111, 110, 46, 99, 114, 101, 97, 116, 101, 100>>,
    <<99, 111, 117, 112, 111, 110, 46, 100, 101, 108, 101, 116, 101, 100>>,
    <<99, 111, 117, 112, 111, 110, 46, 117, 112, 100, 97, 116, 101, 100>>,
    <<99, 117, 115, 116, 111, 109, 101, 114, 46, 99, 114, 101, 97, 116, 101, 100>>,
    <<99, 117, 115, 116, 111, 109, 101, 114, 46, 100, 101, 108, 101, 116, 101, 100>>,
    <<99, 117, 115, 116, 111, 109, 101, 114, 46, 117, 112, 100, 97, 116, 101, 100>>,
    <<99, 117, 115, 116, 111, 109, 101, 114, 46, 100, 105, 115, 99, 111, 117, 110, 116, 46, 99, 114, 101, 97, 116, 101, 100>>,
    <<99, 117, 115, 116, 111, 109, 101, 114, 46, 100, 105, 115, 99, 111, 117, 110, 116, 46, 100, 101, 108, 101, 116, 101, 100>>,
    <<99, 117, 115, 116, 111, 109, 101, 114, 46, 100, 105, 115, 99, 111, 117, 110, 116, 46, 117, 112, 100, 97, 116, 101, 100>>,
    <<99, 117, 115, 116, 111, 109, 101, 114, 46, 115, 111, 117, 114, 99, 101, 46, 99, 114, 101, 97, 116, 101, 100>>,
    <<99, 117, 115, 116, 111, 109, 101, 114, 46, 115, 111, 117, 114, 99, 101, 46, 100, 101, 108, 101, 116, 101, 100>>,
    <<99, 117, 115, 116, 111, 109, 101, 114, 46, 115, 111, 117, 114, 99, 101, 46, 117, 112, 100, 97, 116, 101, 100>>,
    <<99, 117, 115, 116, 111, 109, 101, 114, 46, 115, 117, 98, 115, 99, 114, 105, 112, 116, 105, 111, 110, 46, 99, 114, 101, 97, 116, 101, 100>>,
    <<99, 117, 115, 116, 111, 109, 101, 114, 46, 115, 117, 98, 115, 99, 114, 105, 112, 116, 105, 111, 110, 46, 100, 101, 108, 101, 116, 101, 100>>,
    <<99, 117, 115, 116, 111, 109, 101, 114, 46, 115, 117, 98, 115, 99, 114, 105, 112, 116, 105, 111, 110, 46, 116, 114, 105, 97, 108, 95, 119, 105, 108, 108, 95, 101, 110, 100>>,
    <<99, 117, 115, 116, 111, 109, 101, 114, 46, 115, 117, 98, 115, 99, 114, 105, 112, 116, 105, 111, 110, 46, 117, 112, 100, 97, 116, 101, 100>>,
    <<102, 105, 108, 101, 46, 99, 114, 101, 97, 116, 101, 100>>,
    <<105, 110, 118, 111, 105, 99, 101, 46, 99, 114, 101, 97, 116, 101, 100>>,
    <<105, 110, 118, 111, 105, 99, 101, 46, 112, 97, 121, 109, 101, 110, 116, 95, 102, 97, 105, 108, 101, 100>>,
    <<105, 110, 118, 111, 105, 99, 101, 46, 112, 97, 121, 109, 101, 110, 116, 95, 115, 117, 99, 99, 101, 101, 100, 101, 100>>,
    <<105, 110, 118, 111, 105, 99, 101, 46, 117, 112, 100, 97, 116, 101, 100>>,
    <<105, 110, 118, 111, 105, 99, 101, 46, 117, 112, 99, 111, 109, 105, 110, 103>>,
    <<105, 110, 118, 111, 105, 99, 101, 105, 116, 101, 109, 46, 99, 114, 101, 97, 116, 101, 100>>,
    <<105, 110, 118, 111, 105, 99, 101, 105, 116, 101, 109, 46, 100, 101, 108, 101, 116, 101, 100>>,
    <<105, 110, 118, 111, 105, 99, 101, 105, 116, 101, 109, 46, 117, 112, 100, 97, 116, 101, 100>>,
    <<111, 114, 100, 101, 114, 46, 99, 114, 101, 97, 116, 101, 100>>,
    <<111, 114, 100, 101, 114, 46, 112, 97, 121, 109, 101, 110, 116, 95, 102, 97, 105, 108, 101, 100>>,
    <<111, 114, 100, 101, 114, 46, 112, 97, 121, 109, 101, 110, 116, 95, 115, 117, 99, 99, 101, 101, 100, 101, 100>>,
    <<111, 114, 100, 101, 114, 46, 117, 112, 100, 97, 116, 101, 100>>,
    <<111, 114, 100, 101, 114, 95, 114, 101, 116, 117, 114, 110, 46, 117, 112, 100, 97, 116, 101, 100>>,
    <<112, 97, 121, 111, 117, 116, 46, 99, 97, 110, 99, 101, 108, 101, 100>>,
    <<112, 97, 121, 111, 117, 116, 46, 99, 114, 101, 97, 116, 101, 100>>,
    <<112, 97, 121, 111, 117, 116, 46, 102, 97, 105, 108, 101, 100>>,
    <<112, 97, 121, 111, 117, 116, 46, 112, 97, 105, 100>>,
    <<112, 97, 121, 111, 117, 116, 46, 117, 112, 100, 97, 116, 101, 100>>,
    <<112, 108, 97, 110, 46, 99, 114, 101, 97, 116, 101, 100>>,
    <<112, 108, 97, 110, 46, 100, 101, 108, 101, 116, 101, 100>>,
    <<112, 108, 97, 110, 46, 117, 112, 100, 97, 116, 101, 100>>,
    <<112, 114, 111, 100, 117, 99, 116, 46, 99, 114, 101, 97, 116, 101, 100>>,
    <<112, 114, 111, 100, 117, 99, 116, 46, 100, 101, 108, 101, 116, 101, 100>>,
    <<112, 114, 111, 100, 117, 99, 116, 46, 117, 112, 100, 97, 116, 101, 100>>,
    <<114, 101, 118, 105, 101, 119, 46, 99, 108, 111, 115, 101, 100>>,
    <<114, 101, 118, 105, 101, 119, 46, 111, 112, 101, 110, 101, 100>>,
    <<115, 105, 103, 109, 97, 46, 115, 99, 104, 101, 100, 117, 108, 101, 100, 95, 113, 117, 101, 114, 121, 95, 114, 117, 110, 46, 99, 114, 101, 97, 116, 101, 100>>,
    <<115, 107, 117, 46, 99, 114, 101, 97, 116, 101, 100>>,
    <<115, 107, 117, 46, 100, 101, 108, 101, 116, 101, 100>>,
    <<115, 107, 117, 46, 117, 112, 100, 97, 116, 101, 100>>,
    <<115, 111, 117, 114, 99, 101, 46, 99, 97, 110, 99, 101, 108, 101, 100>>,
    <<115, 111, 117, 114, 99, 101, 46, 99, 104, 97, 114, 103, 101, 97, 98, 108, 101>>,
    <<115, 111, 117, 114, 99, 101, 46, 102, 97, 105, 108, 101, 100>>,
    <<115, 111, 117, 114, 99, 101, 46, 116, 114, 97, 110, 115, 97, 99, 116, 105, 111, 110, 46, 99, 114, 101, 97, 116, 101, 100>>,
    <<116, 114, 97, 110, 115, 102, 101, 114, 46, 99, 114, 101, 97, 116, 101, 100>>,
    <<116, 114, 97, 110, 115, 102, 101, 114, 46, 114, 101, 118, 101, 114, 115, 101, 100>>,
    <<116, 114, 97, 110, 115, 102, 101, 114, 46, 117, 112, 100, 97, 116, 101, 100>> }

\* The values of the "object" tag, one for each variant (snake_case names,
\* fee_refund for ApplicationFeeRefund).
EventObject == { <<97, 99, 99, 111, 117, 110, 116>>,
    <<97, 112, 112, 108, 105, 99, 97, 116, 105, 111, 110, 95, 102, 101, 101>>,
    <<102, 101, 101, 95, 114, 101, 102, 117, 110, 100>>,
    <<98, 97, 108, 97, 110, 99, 101>>,
    <<98, 97, 110, 107, 95, 97, 99, 99, 111, 117, 110, 116>>,
    <<99, 104, 97, 114, 103, 101>>,
    <<100, 105, 115, 112, 117, 116, 101>>,
    <<102, 105, 108, 101>>,
    <<105, 110, 118, 111, 105, 99, 101>>,
    <<105, 110, 118, 111, 105, 99, 101, 95, 105, 116, 101, 109>>,
    <<111, 114, 100, 101, 114>>,
    <<111, 114, 100, 101, 114, 95, 114, 101, 116, 117, 114, 110>>,
    <<112, 97, 121, 111, 117, 116>>,
    <<112, 108, 97, 110>>,
    <<112, 114, 111, 100, 117, 99, 116>>,
    <<114, 101, 102, 117, 110, 100>>,
    <<114, 101, 118, 105, 101, 119>>,
    <<115, 107, 117>>,
    <<115, 117, 98, 115, 99, 114, 105, 112, 116, 105, 111, 110>>,
    <<116, 114, 97, 110, 115, 97, 99, 116, 105, 111, 110>>,
    <<116, 114, 97, 110, 115, 102, 101, 114>> }

NoEvent == [event_type |-> <<>>, object |-> <<>>, id |-> <<>>]

\* A field of type i64 (Timestamp, i64): a number within the integer type.
HasI64Field(obj, key) ==
    HasField(obj, key, "num") /\ ParseI64(FieldOf(obj, key).s).ok

\* A field of type u64: a number that is not negative.
HasU64Field(obj, key) ==
    HasI64Field(obj, key) /\ ParseI64(FieldOf(obj, key).s).v >= 0

\* An Option<String> field: absent, null or a string.
HasOptionalString(obj, key) ==
    /\ obj.t = "obj"
    /\ Len(Members(obj, key)) <= 1
    /\ Len(Members(obj, key)) = 1 => Members(obj, key)[1][2].t \in {"str", "null"}

\* struct Review: every field is required.
ReviewMatches(o) ==
    /\ HasField(o, <<105, 100>>, "str")
    /\ HasField(o, <<111, 98, 106, 101, 99, 116>>, "str")
    /\ HasField(o, <<99, 104, 97, 114, 103, 101>>, "str")
    /\ HasI64Field(o, <<99, 114, 101, 97, 116, 101, 100>>)
    /\ HasField(o, <<108, 105, 118, 101, 109, 111, 100, 101>>, "bool")
    /\ HasField(o, <<111, 112, 101, 110>>, "bool")
    /\ HasField(o, <<114, 101, 97, 115, 111, 110>>, "str")

\* struct ApplicationFee: every field but originating_transaction is
\* required; currency is an enum written as a string and refunds a list
\* object, both declared elsewhere.
ApplicationFeeMatches(o) ==
    /\ HasField(o, <<105, 100>>, "str")
    /\ HasField(o, <<111, 98, 106, 101, 99, 116>>, "str")
    /\ HasField(o, <<97, 99, 99, 111, 117, 110, 116>>, "str")
    /\ HasU64Field(o, <<97, 109, 111, 117, 110, 116>>)
    /\ HasI64Field(o, <<97, 109, 111, 117, 110, 116, 95, 114, 101, 102, 117, 110, 100, 101, 100>>)
    /\ HasField(o, <<97, 112, 112, 108, 105, 99, 97, 116, 105, 111, 110>>, "str")
    /\ HasField(o, <<98, 97, 108, 97, 110, 99, 101, 95, 116, 114, 97, 110, 115, 97, 99, 116, 105, 111, 110>>, "str")
    /\ HasField(o, <<99, 104, 97, 114, 103, 101>>, "str")
    /\ HasI64Field(o, <<99, 114, 101, 97, 116, 101, 100>>)
    /\ HasField(o, <<99, 117, 114, 114, 101, 110, 99, 121>>, "str")
    /\ HasField(o, <<108, 105, 118, 101, 109, 111, 100, 101>>, "bool")
    /\ HasOptionalString(o, <<111, 114, 105, 103, 105, 110, 97, 116, 105, 110, 103, 95, 116, 114, 97, 110, 115, 97, 99, 116, 105, 111, 110>>)
    /\ HasField(o, <<114, 101, 102, 117, 110, 100, 101, 100>>, "bool")
    /\ HasField(o, <<114, 101, 102, 117, 110, 100, 115>>, "obj")

\* The resource of any other variant is a struct declared in a file of its
\* own; the model keeps the field every resource has, id.
OtherResourceMatches(o) == HasField(o, <<105, 100>>, "str")

\* What the derived Deserialize of an internally tagged enum hands to the
\* variant it has chosen: the members of the object without the tag.
TaggedContent(o) == [o EXCEPT !.kv = SelectSeq(o.kv, LAMBDA p : p[1] # <<111, 98, 106, 101, 99, 116>>)]

\* The variant named by tag reads its resource from the content.
ResourceMatches(tag, content) ==
    IF tag = <<114, 101, 118, 105, 101, 119>> THEN ReviewMatches(content)
    ELSE IF tag = <<97, 112, 112, 108, 105, 99, 97, 116, 105, 111, 110, 95, 102, 101, 101>> THEN ApplicationFeeMatches(content)
    ELSE OtherResourceMatches(content)

\* Event { type, data: EventData { object: EventObject } } read from a value.
EventMatches(v) ==
    /\ HasField(v, <<116, 121, 112, 101>>, "str")
    /\ FieldOf(v, <<116, 121, 112, 101>>).s \in EventType
    /\ HasField(v, <<100, 97, 116, 97>>, "obj")
    /\ HasField(FieldOf(v, <<100, 97, 116, 97>>), <<111, 98, 106, 101, 99, 116>>, "obj")
    /\ LET o == FieldOf(FieldOf(v, <<100, 97, 116, 97>>), <<111, 98, 106, 101, 99, 116>>)
       IN  /\ HasField(o, <<111, 98, 106, 101, 99, 116>>, "str")
           /\ FieldOf(o, <<111, 98, 106, 101, 99, 116>>).s \in EventObject
           /\ ResourceMatches(FieldOf(o, <<111, 98, 106, 101, 99, 116>>).s, TaggedContent(o))

EventOf(v) ==
    LET o == FieldOf(FieldOf(v, <<100, 97, 116, 97>>), <<111, 98, 106, 101, 99, 116>>)
    IN  [event_type |-> FieldOf(v, <<116, 121, 112, 101>>).s,
         object |-> FieldOf(o, <<111, 98, 106, 101, 99, 116>>).s,
         id |-> FieldOf(o, <<105, 100>>).s]

\* json::from_str::<Event>(&payload)
EventFromStr(payload) ==
    LET r == ParseJson(payload)
    IN  IF r.ok /\ EventMatches(r.v)
        THEN [ok |-> TRUE, event |-> EventOf(r.v)]
        ELSE [ok |-> FALSE, event |-> NoEvent]

(***************************************************************************)
(* Webhook::construct_event.                                               *)
(***************************************************************************)
Tolerance == 300

Ok(event) == [kind |-> "Ok", err |-> "", ts |-> 0, event |-> event]
Err(e, ts) == [kind |-> "Err", err |-> e, ts |-> ts, event |-> NoEvent]
Panic(why) == [kind |-> "Panic", err |-> why, ts |-> 0, event |-> NoEvent]
NoResult == [kind |-> "None", err |-> "", ts |-> 0, event |-> NoEvent]

\* let mut headers = sig.split(",").map(|s| s.trim().to_string()).collect()
HeaderFields(sig) ==
    LET f == Split(sig, 44) IN [i \in 1..Len(f) |-> Trim(f[i])]

\* format!("{}{}{}", timestamp[1], ".", payload)
SignedPayload(ts_text, payload) == ts_text \o <<46>> \o payload

\* The age check, current - num_timestamp > 300, in the integer type: the
\* subtraction panics on overflow when overflow_checks is on and wraps when
\* it is off.
Age(current, num_timestamp) == WrappingSub(current, num_timestamp)

\* The steps after the signature check has passed.
AfterSignature(payload, current, num_timestamp, overflow_checks) ==
    IF SubOverflows(current, num_timestamp) /\ overflow_checks
    THEN Panic("attempt to subtract with overflow")
    ELSE IF Age(current, num_timestamp) > Tolerance
    THEN Err("BadTimestamp", num_timestamp)
    ELSE LET e == EventFromStr(payload)
         IN  IF e.ok THEN Ok(e.event) ELSE Err("BadParse", 0)

\* A reading that takes the last field as the signature.
SignatureFieldLast(headers) == headers[Len(headers)]

\* The signature field the code verifies against, headers[1].
SignatureFieldOf(headers) == headers[2]

\* construct_event(payload, sig, secret) when the wall clock reads current.
\* Rust indexes from 0: headers[0], headers[1], timestamp[1], signature[1]
\* are headers[1], headers[2], timestamp[2], signature[2] here.
ConstructEvent(payload, sig, secret, current, overflow_checks) ==
    LET headers == HeaderFields(sig)
        timestamp == Split(headers[1], 61)
        signature == Split(SignatureFieldOf(headers), 61)
        result == Hmac(secret, SignedPayload(timestamp[2], payload))
        num_timestamp == ParseI64(timestamp[2])
    IN  IF Len(timestamp) < 2 THEN Panic("index out of bounds")
        ELSE IF Len(headers) < 2 THEN Panic("index out of bounds")
        ELSE IF Len(signature) < 2 THEN Panic("index out of bounds")
        ELSE IF ~num_timestamp.ok THEN Err("BadHeader", 0)
        ELSE IF ~IsEqual(result, signature[2]) THEN Err("BadSignature", 0)
        ELSE AfterSignature(payload, current, num_timestamp.v, overflow_checks)

(***************************************************************************)
(* The inputs the model draws.                                             *)
(***************************************************************************)
\* A review.opened event, the same event with another id (one byte
\* changed), the same with an unknown "object" tag (one byte changed), and
\* a text that is not JSON.
PayloadCharge  == <<123, 34, 116, 121, 112, 101, 34, 58, 34, 99, 104, 97, 114, 103, 101, 46, 115, 117, 99, 99, 101, 101, 100, 101, 100, 34, 44, 34, 100, 97, 116, 97, 34, 58, 123, 34, 111, 98, 106, 101, 99, 116, 34, 58, 123, 34, 111, 98, 106, 101, 99, 116, 34, 58, 34, 99, 104, 97, 114, 103, 101, 34, 44, 34, 105, 100, 34, 58, 34, 99, 104, 95, 49, 34, 125, 125, 125>>
PayloadCharge2 == <<123, 34, 116, 121, 112, 101, 34, 58, 34, 99, 104, 97, 114, 103, 101, 46, 115, 117, 99, 99, 101, 101, 100, 101, 100, 34, 44, 34, 100, 97, 116, 97, 34, 58, 123, 34, 111, 98, 106, 101, 99, 116, 34, 58, 123, 34, 111, 98, 106, 101, 99, 116, 34, 58, 34, 99, 104, 97, 114, 103, 101, 34, 44, 34, 105, 100, 34, 58, 34, 99, 104, 95, 50, 34, 125, 125, 125>>
PayloadUnknown == <<123, 34, 116, 121, 112, 101, 34, 58, 34, 99, 104, 97, 114, 103, 101, 46, 115, 117, 99, 99, 101, 101, 100, 101, 100, 34, 44, 34, 100, 97, 116, 97, 34, 58, 123, 34, 111, 98, 106, 101, 99, 116, 34, 58, 123, 34, 111, 98, 106, 101, 99, 116, 34, 58, 34, 99, 104, 97, 114, 103, 102, 34, 44, 34, 105, 100, 34, 58, 34, 99, 104, 95, 49, 34, 125, 125, 125>>
PayloadNotJson == <<123, 34, 116, 121, 112, 101, 34, 58, 34, 99, 104, 97, 114, 103, 101, 46, 115, 117, 99, 99, 101, 101, 100, 101, 100, 34>>
PayloadReview  == <<123, 34, 116, 121, 112, 101, 34, 58, 34, 114, 101, 118, 105, 101, 119, 46, 111, 112, 101, 110, 101, 100, 34, 44, 34, 100, 97, 116, 97, 34, 58, 123, 34, 111, 98, 106, 101, 99, 116, 34, 58, 123, 34, 111, 98, 106, 101, 99, 116, 34, 58, 34, 114, 101, 118, 105, 101, 119, 34, 44, 34, 105, 100, 34, 58, 34, 112, 114, 118, 95, 49, 34, 44, 34, 99, 104, 97, 114, 103, 101, 34, 58, 34, 99, 104, 95, 49, 34, 44, 34, 99, 114, 101, 97, 116, 101, 100, 34, 58, 49, 44, 34, 108, 105, 118, 101, 109, 111, 100, 101, 34, 58, 102, 97, 108, 115, 101, 44, 34, 111, 112, 101, 110, 34, 58, 116, 114, 117, 101, 44, 34, 114, 101, 97, 115, 111, 110, 34, 58, 34, 114, 117, 108, 101, 34, 125, 125, 125>>

Payloads == {PayloadCharge, PayloadCharge2, PayloadUnknown, PayloadNotJson, PayloadReview}
\* The payloads a sender signs.
SentPayloads == {PayloadCharge, PayloadUnknown, PayloadReview}

Secrets == {<<119, 104, 115, 101, 99, 95, 97>>, <<119, 104, 115, 101, 99, 95, 98>>}

\* Timestamp values: 300 seconds before the start of the run, the start
\* itself, the least integer, one past the greatest, and texts that are no
\* number.
NumericTimestamps == {ToDecimal(Epoch - Tolerance), ToDecimal(Epoch), ToDecimal(IntMin)}
TimestampTexts ==
    NumericTimestamps \cup {ToDecimal(IntMax + 1), <<97, 98, 99>>, <<>>}

\* A digest can be written into a header as it is only when its bytes are
\* text that split and trim leave alone.
IsPlainText(bytes) ==
    \A i \in 1..Len(bytes) :
        /\ bytes[i] < 128
        /\ bytes[i] \notin {44, 61}
        /\ ~IsWhitespace(bytes[i])

\* The signature values a header may carry for a digest: its hexadecimal
\* text, which is what the sender delivers, and its bytes themselves.
SignatureTexts(mac) ==
    {Hex(mac)} \cup (IF IsPlainText(mac) THEN {mac} ELSE {})

\* A signature that is not the digest's: the hexadecimal text of the digest
\* with its first byte changed.
WrongSignature(mac) == Hex([mac EXCEPT ![1] = (mac[1] + 1) % 128])

\* The headers built from a timestamp text t, a signature text s and a wrong
\* signature text w: the sender's form, the same with white space, a single
\* field, a field without "=", other keys, a second v1 field before or a
\* further field after the signature, the fields swapped, and nothing.
HeaderShapes(t, s, w) ==
    { <<116, 61>> \o t \o <<44, 118, 49, 61>> \o s,
      <<32, 116, 61>> \o t \o <<32, 44, 32, 118, 49, 61>> \o s \o <<32>>,
      <<116, 61>> \o t,
      <<116>> \o t \o <<44, 118, 49, 61>> \o s,
      <<116, 61>> \o t \o <<44, 118, 49>> \o s,
      <<120, 61>> \o t \o <<44, 118, 48, 61>> \o s,
      <<116, 61>> \o t \o <<44, 118, 49, 61>> \o w \o <<44, 118, 49, 61>> \o s,
      <<116, 61>> \o t \o <<44, 118, 49, 61>> \o s \o <<44, 118, 48, 61>> \o w,
      <<118, 49, 61>> \o s \o <<44, 116, 61>> \o t,
      <<>> }

SignatureHeaders ==
    UNION { LET mac == Hmac(d[1], SignedPayload(d[3], d[2]))
            IN  UNION { HeaderShapes(d[3], s, WrongSignature(mac)) :
                          s \in SignatureTexts(mac) } :
            d \in Secrets \X SentPayloads \X TimestampTexts }

\* Fields appended to a header.
ExtraFields == {<<118, 49, 61, 48, 48>>, <<118, 48, 61, 97, 98, 99>>, <<>>, <<116, 61, 49>>}


(***************************************************************************)
(* The transport client: Client, Params and the requests it builds.        *)
(***************************************************************************)
\* How many Client values the model holds at once.
MaxClients == 2

None == [some |-> FALSE, v |-> <<>>]
Some(x) == [some |-> TRUE, v |-> x]

\* Params::default()
DefaultParams == [stripe_account |-> None]

NoClient == [live |-> FALSE, client |-> 0, secret_key |-> <<>>, params |-> DefaultParams]

\* Client::new(secret_key): a connection pool of its own (pool names it),
\* the key and default params.
NewClient(secret_key, pool) ==
    [live |-> TRUE, client |-> pool, secret_key |-> secret_key, params |-> DefaultParams]

\* Client::with(&self, params): a clone of self with the params replaced.
\* The clone shares the connection pool and copies the key.
WithParams(self, params) == [self EXCEPT !.params = params]

\* A with that replaces the params of self as well.
AfterWithInPlace(cs, c, d, params) ==
    [cs EXCEPT ![d] = WithParams(cs[c], params), ![c].params = params]

\* The clients after d = cs[c].with(params).
AfterWith(cs, c, d, params) == [cs EXCEPT ![d] = WithParams(cs[c], params)]

\* The clients after cs[c].set_stripe_account(account_id).
AfterSetStripeAccount(cs, c, account_id) ==
    [cs EXCEPT ![c].params.stripe_account = Some(account_id)]

\* format!("https://api.stripe.com/v1/{}", &path[1..])
Url(path) == <<104, 116, 116, 112, 115, 58, 47, 47, 97, 112, 105, 46, 115, 116, 114, 105, 112, 101, 46, 99, 111, 109, 47, 118, 49, 47>> \o SubSeq(path, 2, Len(path))

\* Self::url(path).parse::<Uri>().unwrap() panics when &path[1..] is out of
\* range (an empty path) or when the text is no URI (it holds a space or a
\* control character).
UriPanics(path) ==
    \/ Len(path) < 1
    \/ \E i \in 1..Len(Url(path)) : Url(path)[i] <= 32 \/ Url(path)[i] >= 127

\* A header value may hold a tab and any byte from 32 on but 127.
IsHeaderValue(bytes) ==
    \A i \in 1..Len(bytes) : bytes[i] = 9 \/ (bytes[i] >= 32 /\ bytes[i] # 127)

\* Client::headers panics when the key or the account is no header value.
HeadersPanic(self) ==
    \/ ~IsHeaderValue(self.secret_key)
    \/ (self.params.stripe_account.some /\ ~IsHeaderValue(self.params.stripe_account.v))

\* Client::headers: Authorization, Content-Type and, when the params name an
\* account, Stripe-Account.
ClientHeaders(self) ==
    [authorization |-> <<66, 101, 97, 114, 101, 114, 32>> \o self.secret_key,
     content_type |-> <<97, 112, 112, 108, 105, 99, 97, 116, 105, 111, 110, 47, 120, 45, 119, 119, 119, 45, 102, 111, 114, 109, 45, 117, 114, 108, 101, 110, 99, 111, 100, 101, 100>>,
     stripe_account |-> self.params.stripe_account]

RequestOf(self, method, path, body) ==
    [method |-> method, uri |-> Url(path), headers |-> ClientHeaders(self), body |-> body]

\* String::from_utf8: whether the bytes are well-formed UTF-8.
\* How many bytes the sequence that begins with the byte x has; 0 when x
\* begins none.
Utf8Width(x) ==
    IF x < 128 THEN 1
    ELSE IF x >= 194 /\ x <= 223 THEN 2
    ELSE IF x >= 224 /\ x <= 239 THEN 3
    ELSE IF x >= 240 /\ x <= 244 THEN 4
    ELSE 0

IsContinuation(x) == x >= 128 /\ x <= 191

\* The range of the second byte of the sequence that begins with x.
SecondLow(x) == IF x = 224 THEN 160 ELSE IF x = 240 THEN 144 ELSE 128
SecondHigh(x) == IF x = 237 THEN 159 ELSE IF x = 244 THEN 143 ELSE 191

\* Every byte that is no continuation begins a whole sequence, and every
\* continuation belongs to the sequence begun by the nearest byte before it
\* that is none.
IsUtf8(b) ==
    LET n == Len(b)
        Starts(i) ==
            LET w == Utf8Width(b[i])
            IN  /\ w > 0
                /\ i + w - 1 <= n
                /\ \A j \in (i + 1)..(i + w - 1) : IsContinuation(b[j])
                /\ w > 1 => (b[i + 1] >= SecondLow(b[i]) /\ b[i + 1] <= SecondHigh(b[i]))
        Covered(i) ==
            \E k \in 1..3 :
                /\ i - k >= 1
                /\ ~IsContinuation(b[i - k])
                /\ Utf8Width(b[i - k]) > k
                /\ \A j \in (i - k + 1)..(i - 1) : IsContinuation(b[j])
    IN  \A i \in 1..n : IF IsContinuation(b[i]) THEN Covered(i) ELSE Starts(i)

\* The outcome of a call: Ok(T), Err(Error) or a panic.
COk(value) ==
    [kind |-> "Ok", err |-> "", http_status |-> 0, message |-> None, value |-> value]
CErr(e, http_status, message) ==
    [kind |-> "Err", err |-> e, http_status |-> http_status, message |-> message, value |-> <<>>]
CPanic(why) ==
    [kind |-> "Panic", err |-> why, http_status |-> 0, message |-> None, value |-> <<>>]
CNone == [kind |-> "None", err |-> "", http_status |-> 0, message |-> None, value |-> <<>>]

\* The text of a serde_json error, as {} formats it.
JsonErrorText == <<101, 120, 112, 101, 99, 116, 101, 100, 32, 118, 97, 108, 117, 101>>

\* json::from_str::<ErrorObject>(&body): an object whose "error" member is
\* an object; its message is optional text, and its http_status is not read
\* from the body.
ErrorObjectFromStr(body) ==
    LET r == ParseJson(body)
        e == FieldOf(r.v, <<101, 114, 114, 111, 114>>)
        m == Members(e, <<109, 101, 115, 115, 97, 103, 101>>)
    IN  IF r.ok /\ HasField(r.v, <<101, 114, 114, 111, 114>>, "obj")
               /\ Len(m) <= 1
               /\ (Len(m) = 1 => m[1][2].t \in {"str", "null"})
        THEN [ok |-> TRUE,
              message |-> IF Len(m) = 1 /\ m[1][2].t = "str" THEN Some(m[1][2].s) ELSE None]
        ELSE [ok |-> FALSE, message |-> None]

\* The envelope made when the body is no ErrorObject:
\* message = Some(format!("failed to deserialize error: {}", err))
SyntheticMessage == Some(<<102, 97, 105, 108, 101, 100, 32, 116, 111, 32, 100, 101, 115, 101, 114, 105, 97, 108, 105, 122, 101, 32, 101, 114, 114, 111, 114, 58, 32>> \o JsonErrorText)

\* json::from_str::<T>(&body) for the T of the model, Review.
TFromStr(body) ==
    LET r == ParseJson(body)
    IN  IF r.ok /\ ReviewMatches(r.v)
        THEN [ok |-> TRUE, value |-> FieldOf(r.v, <<105, 100>>).s]
        ELSE [ok |-> FALSE, value |-> <<>>]

\* The http_status an error carries: status.into().
HttpStatusOf(net) == net.status

\* Client::send once the request is on the wire and the network has
\* answered with net: a failure, a response whose body stream fails, or a
\* response with a status and a body.
Send(net) ==
    IF net.kind = "error"
    THEN CPanic("unwrap on an Err value")
    ELSE IF net.kind = "body_error" \/ ~IsUtf8(net.body)
    THEN CPanic("unwrap on an Err value")
    ELSE IF net.status < 200 \/ net.status > 299
    THEN LET parsed == ErrorObjectFromStr(net.body)
         IN  CErr("RequestError", HttpStatusOf(net),
                  IF parsed.ok THEN parsed.message ELSE SyntheticMessage)
    ELSE LET t == TFromStr(net.body)
         IN  IF t.ok THEN COk(t.value) ELSE CErr("json::Error", 0, None)

\* A send that tries again after a failure or a status outside 200..299.
TransmissionsRetry(net) ==
    IF net.kind # "response" \/ net.status < 200 \/ net.status > 299 THEN 2 ELSE 1

\* How many times a call puts its request on the wire.
Transmissions(net) == 1

\* get, post_empty and delete: the URI, the headers, then send.  What the
\* call put on the wire, the answer it got and its outcome.
Exchange(self, method, path, body, net) ==
    IF UriPanics(path) \/ HeadersPanic(self)
    THEN [sent |-> <<>>, result |-> CPanic("unwrap on an Err value")]
    ELSE [sent |-> [i \in 1..Transmissions(net) |-> RequestOf(self, method, path, body)],
          result |-> Send(net)]

\* post: the URI, then qs::to_string(&params)?, the headers, then send.
PostExchange(self, path, params, net) ==
    IF UriPanics(path)
    THEN [sent |-> <<>>, result |-> CPanic("unwrap on an Err value")]
    ELSE IF ~params.encodable
    THEN [sent |-> <<>>, result |-> CErr("qs::Error", 0, None)]
    ELSE Exchange(self, "POST", path, params.body, net)

(***************************************************************************)
(* The inputs the client model draws.                                      *)
(***************************************************************************)
SecretKeys == {<<115, 107, 95, 97>>, <<115, 107, 95, 98>>}

\* Account ids: two that are header values and one that is not (a line feed).
Accounts == {<<97, 99, 99, 116, 95, 65>>, <<97, 99, 99, 116, 95, 66>>, <<97, 10>>}

\* A path, the empty path and a path with a space.
Paths == {<<47, 99, 104, 97, 114, 103, 101, 115>>, <<>>, <<47, 97, 32, 98>>}

\* Params that form-encode and params that do not.
PostParams ==
    {[encodable |-> TRUE, body |-> <<97, 109, 111, 117, 110, 116, 61, 49, 48, 48, 48>>], [encodable |-> FALSE, body |-> <<>>]}

\* Bodies: an error envelope (with an http_status of its own), an envelope
\* without a message, a resource, a text that is not JSON, and bytes that
\* are not UTF-8.
BodyEnvelope == <<123, 34, 101, 114, 114, 111, 114, 34, 58, 123, 34, 109, 101, 115, 115, 97, 103, 101, 34, 58, 34, 100, 101, 99, 108, 105, 110, 101, 100, 34, 44, 34, 104, 116, 116, 112, 95, 115, 116, 97, 116, 117, 115, 34, 58, 50, 48, 48, 125, 125>>
BodyBareEnvelope == <<123, 34, 101, 114, 114, 111, 114, 34, 58, 123, 125, 125>>
BodyResource == <<123, 34, 105, 100, 34, 58, 34, 112, 114, 118, 95, 49, 34, 44, 34, 111, 98, 106, 101, 99, 116, 34, 58, 34, 114, 101, 118, 105, 101, 119, 34, 44, 34, 99, 104, 97, 114, 103, 101, 34, 58, 34, 99, 104, 95, 49, 34, 44, 34, 99, 114, 101, 97, 116, 101, 100, 34, 58, 49, 44, 34, 108, 105, 118, 101, 109, 111, 100, 101, 34, 58, 102, 97, 108, 115, 101, 44, 34, 111, 112, 101, 110, 34, 58, 116, 114, 117, 101, 44, 34, 114, 101, 97, 115, 111, 110, 34, 58, 34, 114, 117, 108, 101, 34, 125>>
BodyNotJson == <<60, 104, 116, 109, 108, 62>>
BodyNotUtf8 == <<123, 255, 125>>

Bodies == {BodyEnvelope, BodyBareEnvelope, BodyResource, BodyNotJson, BodyNotUtf8}

Statuses == {199, 200, 299, 300}

NoNet == [kind |-> "none", status |-> 0, body |-> <<>>]

\* What the network does with a request.
NetOutcomes ==
    {[kind |-> "error", status |-> 0, body |-> <<>>]}
    \cup {[kind |-> "body_error", status |-> 200, body |-> <<>>]}
    \cup {[kind |-> "response", status |-> s, body |-> b] : s \in Statuses, b \in Bodies}

NoOp == [op |-> "none", self |-> 0, new |-> 0, params |-> DefaultParams]

(***************************************************************************)
(* State.                                                                  *)
(***************************************************************************)
VARIABLES
    now,              \* the wall clock, Utc::now().timestamp()
    overflow_checks,  \* whether the build checks integer overflow
    pc,               \* the verifier's caller: "idle" or "returned"
    payload, sig, secret,  \* the arguments of the last construct_event
    result,           \* its outcome
    clients,          \* the Client values, by slot
    cpc,              \* the client's caller: "idle" or "returned"
    last_op,          \* the new, with or set_stripe_account that returned
    call,             \* the get, post, post_empty or delete that returned
    sent,             \* the requests that call put on the wire
    response,         \* what the network answered
    cresult           \* the call's outcome

wvars == <<now, overflow_checks, pc, payload, sig, secret, result>>
cvars == <<clients, last_op, cpc, call, sent, response, cresult>>
vars == <<wvars, cvars>>

NoCall == [op |-> "none", self |-> 0, path |-> <<>>, encodable |-> TRUE]

WebhookInit ==
    /\ now = Epoch
    /\ pc = "idle"
    /\ payload = <<>>
    /\ sig = <<>>
    /\ secret = <<>>
    /\ result = NoResult

ClientInit ==
    /\ clients = [i \in 1..MaxClients |-> IF i = 1 THEN NewClient(<<115, 107, 95, 97>>, 1) ELSE NoClient]
    /\ last_op = NoOp
    /\ cpc = "idle"
    /\ call = NoCall
    /\ sent = <<>>
    /\ response = NoNet
    /\ cresult = CNone

(***************************************************************************)
(* The verifier: the wall clock advances, and a caller hands               *)
(* construct_event a payload, a header and a secret.                       *)
(***************************************************************************)
Tick ==
    /\ pc = "idle"
    /\ now < Epoch + MaxTicks
    /\ now' = now + 1
    /\ UNCHANGED <<overflow_checks, pc, payload, sig, secret, result>>
    /\ UNCHANGED cvars

Call ==
    /\ pc = "idle"
    /\ \E p \in Payloads, h \in SignatureHeaders, k \in Secrets :
        /\ payload' = p
        /\ sig' = h
        /\ secret' = k
        /\ result' = ConstructEvent(p, h, k, now, overflow_checks)
    /\ pc' = "returned"
    /\ UNCHANGED <<now, overflow_checks>>
    /\ UNCHANGED cvars

Return ==
    /\ pc = "returned"
    /\ pc' = "idle"
    /\ payload' = <<>>
    /\ sig' = <<>>
    /\ secret' = <<>>
    /\ result' = NoResult
    /\ UNCHANGED <<now, overflow_checks>>
    /\ UNCHANGED cvars

Init ==
    /\ WebhookInit
    /\ overflow_checks \in BOOLEAN
    /\ ClientInit

Next == Tick \/ Call \/ Return

Spec == Init /\ [][Next]_vars

(***************************************************************************)
(* The client: clients are made, derived and changed, and calls are made   *)
(* through them.                                                           *)
(***************************************************************************)
Live == {c \in 1..MaxClients : clients[c].live}
Free == {c \in 1..MaxClients : ~clients[c].live}

New ==
    /\ cpc = "idle"
    /\ \E d \in Free, k \in SecretKeys :
        /\ clients' = [clients EXCEPT ![d] = NewClient(k, d)]
        /\ last_op' = [op |-> "new", self |-> d, new |-> d, params |-> DefaultParams]
    /\ cpc' = "returned"
    /\ UNCHANGED <<call, sent, response, cresult>>
    /\ UNCHANGED wvars

With ==
    /\ cpc = "idle"
    /\ \E c \in Live, d \in Free, a \in {None} \cup {Some(x) : x \in Accounts} :
        /\ clients' = AfterWith(clients, c, d, [stripe_account |-> a])
        /\ last_op' = [op |-> "with", self |-> c, new |-> d, params |-> [stripe_account |-> a]]
    /\ cpc' = "returned"
    /\ UNCHANGED <<call, sent, response, cresult>>
    /\ UNCHANGED wvars

SetStripeAccount ==
    /\ cpc = "idle"
    /\ \E c \in Live, a \in Accounts :
        /\ clients' = AfterSetStripeAccount(clients, c, a)
        /\ last_op' = [op |-> "set_stripe_account", self |-> c, new |-> c,
                       params |-> [stripe_account |-> Some(a)]]
    /\ cpc' = "returned"
    /\ UNCHANGED <<call, sent, response, cresult>>
    /\ UNCHANGED wvars

\* The state after a call whose exchange was x and whose network outcome
\* was net: the answer is recorded only when a request went out.
Returned(c, op, path, encodable, x, net) ==
    /\ call' = [op |-> op, self |-> c, path |-> path, encodable |-> encodable]
    /\ sent' = x.sent
    /\ response' = IF x.sent = <<>> THEN NoNet ELSE net
    /\ cresult' = x.result
    /\ cpc' = "returned"
    /\ UNCHANGED <<clients, last_op>>
    /\ UNCHANGED wvars

Get ==
    /\ cpc = "idle"
    /\ \E c \in Live, path \in Paths, net \in NetOutcomes :
        Returned(c, "get", path, TRUE, Exchange(clients[c], "GET", path, <<>>, net), net)

Post ==
    /\ cpc = "idle"
    /\ \E c \in Live, path \in Paths, params \in PostParams, net \in NetOutcomes :
        Returned(c, "post", path, params.encodable,
                 PostExchange(clients[c], path, params, net), net)

PostEmpty ==
    /\ cpc = "idle"
    /\ \E c \in Live, path \in Paths, net \in NetOutcomes :
        Returned(c, "post_empty", path, TRUE,
                 Exchange(clients[c], "POST", path, <<>>, net), net)

Delete ==
    /\ cpc = "idle"
    /\ \E c \in Live, path \in Paths, net \in NetOutcomes :
        Returned(c, "delete", path, TRUE,
                 Exchange(clients[c], "DELETE", path, <<>>, net), net)

ClientReturn ==
    /\ cpc = "returned"
    /\ cpc' = "idle"
    /\ call' = NoCall
    /\ sent' = <<>>
    /\ response' = NoNet
    /\ cresult' = CNone
    /\ last_op' = NoOp
    /\ UNCHANGED clients
    /\ UNCHANGED wvars

ClientSpecInit ==
    /\ WebhookInit
    /\ overflow_checks = TRUE
    /\ ClientInit

ClientNext ==
    New \/ With \/ SetStripeAccount \/ Get \/ Post \/ PostEmpty \/ Delete \/ ClientReturn

ClientSpec == ClientSpecInit /\ [][ClientNext]_vars

(***************************************************************************)
(* What the claims speak of.                                               *)
(***************************************************************************)
\* No two (secret, timestamp, payload) triples of the model have the same
\* digest: the stand-in for HMAC is collision-free where the model uses it.
HmacCollisionFree ==
    \A a \in Secrets \X TimestampTexts \X Payloads :
        \A b \in Secrets \X TimestampTexts \X Payloads :
            a # b => Hmac(a[1], SignedPayload(a[2], a[3])) # Hmac(b[1], SignedPayload(b[2], b[3]))

\* The header as the sender delivers it: t=<ts>,v1=<hex of the digest>.
SenderHeader(t, p, k) ==
    <<116, 61>> \o t \o <<44, 118, 49, 61>> \o Hex(Hmac(k, SignedPayload(t, p)))

\* The headers t=<ts>,v1=<signature> whose signature stands for the digest
\* of p under k, written as hexadecimal text or as the digest's own bytes.
SignedHeaders(t, p, k) ==
    { <<116, 61>> \o t \o <<44, 118, 49, 61>> \o s : s \in SignatureTexts(Hmac(k, SignedPayload(t, p))) }

HasEquals(f) == \E i \in 1..Len(f) : f[i] = 61
KeyOf(f) == Split(f, 61)[1]
ValueOf(f) == Split(f, 61)[2]

\* A header with a timestamp and a signature to read: at least two fields,
\* the first <key>=<number> and the second <key>=<signature>.
Readable(h) ==
    LET f == HeaderFields(h)
    IN  /\ Len(f) >= 2
        /\ HasEquals(f[1]) /\ ParseI64(ValueOf(f[1])).ok
        /\ HasEquals(f[2])

\* The timestamp of a readable header.
TimestampOf(h) == ParseI64(ValueOf(HeaderFields(h)[1])).v

\* The signature a readable header carries is the digest of its timestamp,
\* "." and the payload under the secret.
SignatureMatches(p, h, k) ==
    LET f == HeaderFields(h)
    IN  ValueOf(f[2]) = Hmac(k, SignedPayload(ValueOf(f[1]), p))

DiffersInOneByte(a, b) ==
    /\ Len(a) = Len(b)
    /\ Cardinality({i \in 1..Len(a) : a[i] # b[i]}) = 1

\* A malformed header: fewer than two fields, a field without "=", no t
\* key, no v1 key, or a t value that is not a number.
Malformed(h) ==
    LET f == HeaderFields(h)
    IN  \/ Len(f) < 2
        \/ \E i \in 1..Len(f) : ~HasEquals(f[i])
        \/ ~\E i \in 1..Len(f) : KeyOf(f[i]) = <<116>>
        \/ ~\E i \in 1..Len(f) : KeyOf(f[i]) = <<118, 49>>
        \/ \E i \in 1..Len(f) :
              HasEquals(f[i]) /\ KeyOf(f[i]) = <<116>> /\ ~ParseI64(ValueOf(f[i])).ok

(***************************************************************************)
(* C1.  Completeness: a well-formed Event payload delivered with the       *)
(* sender's header t=<ts>,v1=<hex of HMAC(secret, ts.payload)>, ts not     *)
(* more than 300 seconds old, is accepted with the Event parsed from it.   *)
(* The code compares the 2 * MacLen characters of the hexadecimal text     *)
(* with the MacLen bytes of the digest, so it answers BadSignature.        *)
(***************************************************************************)
C1_Completeness ==
    pc = "returned" =>
        \A t \in NumericTimestamps :
            ( /\ sig = SenderHeader(t, payload, secret)
              /\ now - ParseI64(t).v <= Tolerance
              /\ EventFromStr(payload).ok )
            => result = Ok(EventFromStr(payload).event)

(***************************************************************************)
(* C2.  Soundness: the outcome is Ok only if the signature of the header   *)
(* is the digest of timestamp, "." and payload under the secret and the    *)
(* timestamp is not more than 300 seconds old; and a payload that differs  *)
(* in one byte from the signed one, under the unchanged header, gets       *)
(* BadSignature.  A release build accepts the least timestamp, whose age   *)
(* wraps around (see C4).                                                  *)
(***************************************************************************)
C2_Soundness ==
    pc = "returned" =>
        /\ result.kind = "Ok" =>
              /\ Readable(sig)
              /\ SignatureMatches(payload, sig, secret)
              /\ now - TimestampOf(sig) <= Tolerance
        /\ \A t \in NumericTimestamps, p0 \in SentPayloads :
              (sig \in SignedHeaders(t, p0, secret) /\ DiffersInOneByte(payload, p0))
              => result = Err("BadSignature", 0)

(***************************************************************************)
(* C3.  A malformed header gets the error BadHeader, as a value.  The      *)
(* code indexes headers[1], timestamp[1] and signature[1] unchecked and    *)
(* panics, and it never looks at the keys.                                 *)
(***************************************************************************)
C3_MalformedHeaderIsBadHeader ==
    (pc = "returned" /\ Malformed(sig)) => result = Err("BadHeader", 0)

(***************************************************************************)
(* C4.  The tolerance boundary: with a signature that matches, a timestamp *)
(* exactly 300 seconds old is accepted, and one 301 seconds old or older   *)
(* is rejected with BadTimestamp(ts).  For a timestamp so old that         *)
(* current - ts overflows the integer type, the code panics (overflow      *)
(* checks on) or accepts (off).                                            *)
(***************************************************************************)
C4_ToleranceBoundary ==
    (pc = "returned" /\ Readable(sig) /\ SignatureMatches(payload, sig, secret)) =>
        /\ now - TimestampOf(sig) = Tolerance => result.kind = "Ok" \/ result.err = "BadParse"
        /\ now - TimestampOf(sig) > Tolerance => result = Err("BadTimestamp", TimestampOf(sig))

(***************************************************************************)
(* C5.  The payload is parsed only after both checks: BadParse is the      *)
(* outcome only when the signature matches and the timestamp is within     *)
(* tolerance, and a header whose signature does not match or whose         *)
(* timestamp is stale gets BadSignature or BadTimestamp whatever the       *)
(* payload is.  It fails for the timestamps of C4.                         *)
(***************************************************************************)
C5_ParseAfterChecks ==
    pc = "returned" =>
        /\ result.err = "BadParse" =>
              /\ Readable(sig)
              /\ SignatureMatches(payload, sig, secret)
              /\ now - TimestampOf(sig) <= Tolerance
        /\ ( /\ Readable(sig)
             /\ \/ ~SignatureMatches(payload, sig, secret)
                \/ now - TimestampOf(sig) > Tolerance )
              => (result.kind = "Err" /\ result.err \in {"BadSignature", "BadTimestamp"})

(***************************************************************************)
(* C10.  The code reads the first two fields of the header and no other:   *)
(* the outcome for a header of two or more fields is the same after more   *)
(* fields are appended, and a header t=<ts>,v1=<wrong>,v1=<right> gets     *)
(* BadSignature.                                                           *)
(***************************************************************************)
C10_FirstTwoFields ==
    pc = "returned" =>
        /\ Len(HeaderFields(sig)) >= 2 =>
              \A x \in ExtraFields :
                  ConstructEvent(payload, sig \o <<44>> \o x, secret, now, overflow_checks)
                      = result
        /\ \A t \in NumericTimestamps :
              LET mac == Hmac(secret, SignedPayload(t, payload))
              IN  \A s \in SignatureTexts(mac) :
                      ( /\ sig = <<116, 61>> \o t \o <<44, 118, 49, 61>> \o WrongSignature(mac) \o <<44, 118, 49, 61>> \o s
                        /\ now - ParseI64(t).v <= Tolerance )
                      => result = Err("BadSignature", 0)

\* C10 as written: appending fields changes the outcome for no header at
\* all, a header of one field included.
C10_AnyHeader ==
    pc = "returned" =>
        \A x \in ExtraFields :
            ConstructEvent(payload, sig \o <<44>> \o x, secret, now, overflow_checks) = result

\* A header t=<ts>,v1=<wrong>,v1=<digest> whose third field would pass the
\* check, within tolerance, was answered BadSignature.
C10_Witness ==
    /\ pc = "returned"
    /\ result = Err("BadSignature", 0)
    /\ \E t \in NumericTimestamps :
          LET mac == Hmac(secret, SignedPayload(t, payload))
          IN  /\ IsPlainText(mac)
              /\ now - ParseI64(t).v <= Tolerance
              /\ sig = <<116, 61>> \o t \o <<44, 118, 49, 61>> \o WrongSignature(mac) \o <<44, 118, 49, 61>> \o mac

EnvelopeParses(body) == IsUtf8(body) /\ ErrorObjectFromStr(body).ok

(***************************************************************************)
(* C6.  A response whose status is outside 200..299 gives Err with a       *)
(* request error that carries the status of the response, whatever the     *)
(* body, and never a panic; when the body is no error envelope the         *)
(* message is the synthetic one.  The code unwraps the UTF-8 decoding of   *)
(* the body before it looks at the status.                                 *)
(***************************************************************************)
C6_NonSuccessIsRequestError ==
    (cpc = "returned" /\ response.kind = "response"
        /\ (response.status < 200 \/ response.status > 299)) =>
        /\ cresult.kind = "Err"
        /\ cresult.err = "RequestError"
        /\ cresult.http_status = response.status
        /\ ~EnvelopeParses(response.body) => cresult.message = SyntheticMessage

TransportErr == cresult.kind = "Err" /\ cresult.err # "RequestError"

Is2xx == response.kind = "response" /\ response.status >= 200 /\ response.status <= 299

(***************************************************************************)
(* C7.  A transport failure that is no API error is an Err distinct from   *)
(* the request error, not a panic: a failed round trip, a body that is     *)
(* not UTF-8, a 2xx body that does not match T; and a 2xx body that        *)
(* matches T gives Ok(T).  The code unwraps the round trip and the body.   *)
(***************************************************************************)
C7_TransportFailureIsErr ==
    (cpc = "returned" /\ sent # <<>>) =>
        /\ response.kind \in {"error", "body_error"} => TransportErr
        /\ (Is2xx /\ ~IsUtf8(response.body)) => TransportErr
        /\ (Is2xx /\ IsUtf8(response.body) /\ ~TFromStr(response.body).ok) => TransportErr
        /\ (Is2xx /\ IsUtf8(response.body) /\ TFromStr(response.body).ok)
              => cresult = COk(TFromStr(response.body).value)

EncodingFails == call.op = "post" /\ ~call.encodable

(***************************************************************************)
(* C8.  A call puts its request on the wire at most once, whatever the     *)
(* network answers; a call that returns has sent it exactly once, but for  *)
(* post with params that do not form-encode, which returns the encoding    *)
(* error and sends nothing.                                                *)
(***************************************************************************)
C8_AtMostOneRoundTrip ==
    (cpc = "returned" /\ call.op # "none") =>
        /\ Len(sent) <= 1
        /\ (cresult.kind \in {"Ok", "Err"} /\ ~EncodingFails) => Len(sent) = 1
        /\ (cresult.kind \in {"Ok", "Err"} /\ EncodingFails)
              => (sent = <<>> /\ cresult = CErr("qs::Error", 0, None))

\* C8 as written: no call returns without having sent its request, post
\* with params that do not encode included.
C8_ExactlyOneRoundTrip ==
    (cpc = "returned" /\ call.op # "none" /\ cresult.kind \in {"Ok", "Err"}) => Len(sent) = 1

\* A post whose params do not encode has returned the encoding error.
C8_Witness ==
    /\ cpc = "returned"
    /\ EncodingFails
    /\ cresult = CErr("qs::Error", 0, None)
    /\ sent = <<>>

(***************************************************************************)
(* C9.  Copy-on-derive: with(params) gives a new client with the given     *)
(* params and the original's key and leaves the original as it was; and    *)
(* with and set_stripe_account on one client leave the headers every       *)
(* other client sends as they were.                                        *)
(***************************************************************************)
C9_CopyOnDerive ==
    [][ /\ last_op'.op = "with" =>
              /\ clients'[last_op'.new].live
              /\ clients'[last_op'.new].params = last_op'.params
              /\ clients'[last_op'.new].secret_key = clients[last_op'.self].secret_key
              /\ clients'[last_op'.self] = clients[last_op'.self]
        /\ last_op'.op \in {"with", "set_stripe_account"} =>
              \A c \in 1..MaxClients :
                  (clients[c].live /\ c # last_op'.new)
                  => /\ clients'[c].live
                     /\ ClientHeaders(clients'[c]) = ClientHeaders(clients[c])
      ]_vars

\* set_stripe_account has returned on a client that was derived from, or
\* has a derivative in, another one with another account.
C9_Witness ==
    /\ cpc = "returned"
    /\ last_op.op = "set_stripe_account"
    /\ \E c \in 1..MaxClients :
          /\ c # last_op.self
          /\ clients[c].live
          /\ clients[c].client = clients[last_op.self].client
          /\ clients[c].params.stripe_account # clients[last_op.self].params.stripe_account

=============================================================================
